---- MODULE Spec2Model ----
(***************************************************************************)
(* A model of the order ETL pipeline: the checkpoint file, the paginated   *)
(* fetcher (extract.py), the normalizer's deduplication (transform.py),    *)
(* the upsert sink (load.py) and the stage driver (run_pipeline.py).       *)
(*                                                                         *)
(* Time is counted in minutes.  A timestamp is an integer; the empty       *)
(* string "" that stands for "no checkpoint" is EmptyStr.                  *)
(*                                                                         *)
(* Specifications:                                                         *)
(*   Spec       the whole pipeline: the shop changes and time passes       *)
(*              between runs; a run is StartRun, the passes of             *)
(*              request_data's loop, then the rest of extract.main,        *)
(*              transform and load.  The shop does not change while a run  *)
(*              is under way, and a server that has failed a request stays *)
(*              down for the rest of that call.                            *)
(*   SpecFetch  one call of request_data against every server of the       *)
(*              bounds, where any request may fail.  FairSpecFetch adds    *)
(*              that the loop keeps running.                               *)
(*   SpecLoad   load.main called again and again with the frames           *)
(*              transform can produce.                                     *)
(*   SpecDedup  transform.main's deduplication on every raw batch of the   *)
(*              bounds.                                                    *)
(*   SpecCustomer  create_customer_identifier and is_guest on every row    *)
(*              of the bounds.                                             *)
(*   SpecGeo    one call of get_coordinates, where the lookup of any       *)
(*              batch may fail.                                            *)
(*   SpecStamp  the timestamp extract.main saves, at every instant and in  *)
(*              every time zone of the bounds.                             *)
(*   SpecMeta   simplify_metadata on every metadata list of the bounds.    *)
(*   SpecItems  count_total_items, then simplify_line_items, on every      *)
(*              list of line items of the bounds.                          *)
(*   SpecCoords add_coordinates on every frame of the bounds.              *)
(*   SpecMain   the steps of transform.main on one order that has some of  *)
(*              the columns main reads.                                    *)
(***************************************************************************)
EXTENDS Integers, Sequences, FiniteSets, Bags, TLC

\* ------------------------------------------------------------- bounds
\* Orders a server holds when request_data runs on its own, and orders
\* a load may carry: ids 1..NumOrders.
NumOrders == 3
\* Orders the shop of the whole pipeline can hold: ids 1..ShopOrders.
ShopOrders == 2
\* The longest page the server hands out (it may cap per_page).
PageLen == 2
\* Failed requests the environment may inject into one request_data call.
MaxFaults == 7
\* Periods the clock may advance by.
MaxTicks == 1
\* Pipeline runs in one behaviour.
MaxRuns == 2
\* Rows in one load of the sink's own specification.
MaxLoadRows == 3
\* Raw orders in one batch of the deduplication's own specification.
MaxBatch == 3
\* Characters in a billing email.
MaxEmailLen == 2
\* Items in the list get_coordinates is called with.
MaxPostcodes == 4
\* Minutes after midnight at which the timestamp is computed.
MaxUtcNow == 20
\* Items in the metadata list of an order.
MaxMeta == 3
\* Line items of an order.
MaxItems == 2
\* Orders of the frame add_coordinates is given.
MaxShipOrders == 2

\* -------------------------------------------------- program constants
\* extract.py: return "" / if last_extraction != ""
EmptyStr == -1
\* extract.py: params = {"per_page": 100, ...}
per_page == 100
\* extract.py: max_retries = 5
max_retries == 5
\* extract.py: timedelta(minutes=2)
MarginMinutes == 2
\* load.py: rows_per_batch = 200.  Scaled to 2 so that a load of
\* MaxLoadRows rows spans more than one batch.
rows_per_batch == 2

Endpoints == {"orders", "products"}
\* Retry-After hints (seconds) a 429 response may carry.
RetryAfterHints == {7}
\* Versions of an order's columns in the sink's own specification.
Versions == {1, 2}

VARIABLES
    \* ---- environment
    clock,            \* datetime.now(), in minutes
    source,           \* the shop: order id -> date_modified
    srv_pages,        \* the non-empty pages the server answers this call with
    srv_endless,      \* a misbehaving server: every page is non-empty (and
                      \* every request is answered with a body that parses)
    srv_flaky,        \* TRUE: any request may fail or succeed; FALSE: once a
                      \* request failed the server stays down for the call
    \* ---- durable state
    checkpoint_file,  \* <<>>: the file is absent; <<t>>: {"last_extraction": t}
    checkpoint_torn,  \* the file exists and holds no complete JSON document
                      \* (then checkpoint_file = <<>>)
    table,            \* the destination table: a bag of rows
    \* ---- run_pipeline / extract.main
    pc,               \* position of the run
    last_extraction,
    all_raw_data,
    clean_data,
    \* ---- request_data locals
    endpoint,
    page,
    all_data,
    params,
    current_retry,
    \* ---- observations
    get_calls,        \* the params of every requests.get call, in order
    sleep_calls,      \* the argument of every time.sleep call, in order
    retry_after,      \* Retry-After hint of the last response (0: none)
    faults,           \* failed requests of this request_data call
    fail_streak,      \* failed requests since the last one that succeeded
    unfetched,        \* the orders whose current version no run has fetched
    upserted_ever,    \* every order_id a load has committed
    checkpoint_at_start, \* checkpoint_file when the current run started
    run_result,       \* how the last run ended
    runs,             \* runs started
    last_load,        \* [records, ok] of the last load
    reloaded,         \* the last load repeated the one before it, both committed
    overwrote,        \* the last load committed a row over a different stored one
    \* ---- transform.main and its row functions, called on their own
    tpc,              \* position of the call
    orders_data,      \* the raw batch
    deduplicated_data,
    order_row,        \* the row create_customer_identifier is applied to
    customer_identifier,
    is_guest,
    \* ---- get_coordinates, called on its own
    gpc,              \* position of the call
    postcodes,        \* the argument: [kind, items]
    start,            \* the loop variable
    found_coordinates,
    batch_log,        \* [batch, outcome] of every lookup made, in order
    \* ---- the timestamp extract.main saves, computed on its own
    utc_now,          \* the instant of the call, in minutes of UTC
    utc_offset,       \* the machine's time zone, in minutes east of UTC
    extraction_stamp, \* None, or <<the timestamp>>
    \* ---- simplify_metadata, called on its own
    metadata_list,
    meta_fields,      \* None, or <<the result>>
    \* ---- the line item columns of transform.main, on their own
    line_items,
    total_items,
    item_details,
    \* ---- add_coordinates, called on its own
    shipping,         \* the postcode of each order's shipping, as sent
    order_postcodes,  \* the formatted postcode of each order
    coordinates,      \* the (latitude, longitude) of each order
    \* ---- transform.main on one raw order, column by column
    raw_order,        \* the raw order: key -> value
    main_stage,       \* the steps of main that are done
    processed         \* None, or <<the record>>

vars == <<clock, source, srv_pages, srv_endless, srv_flaky, checkpoint_file,
          checkpoint_torn, table, pc,
          last_extraction, all_raw_data, clean_data, endpoint, page, all_data,
          params, current_retry, get_calls, sleep_calls, retry_after, faults,
          fail_streak, unfetched, upserted_ever, checkpoint_at_start, run_result, runs,
          last_load, reloaded, overwrote,
          tpc, orders_data, deduplicated_data, order_row, customer_identifier,
          is_guest, gpc, postcodes, start, found_coordinates, batch_log,
          utc_now, utc_offset, extraction_stamp, metadata_list, meta_fields,
          line_items, total_items, item_details, shipping, order_postcodes,
          coordinates, raw_order, main_stage, processed>>

envVars == <<clock, source>>
serverVars == <<srv_pages, srv_endless, srv_flaky>>
durableVars == <<checkpoint_file, checkpoint_torn, table>>
runVars == <<last_extraction, all_raw_data, clean_data>>
fetchVars == <<endpoint, page, all_data, params, current_retry>>
fetchObs == <<get_calls, sleep_calls, retry_after, faults, fail_streak>>
runObs == <<checkpoint_at_start, run_result, runs>>
loadObs == <<upserted_ever, last_load, reloaded, overwrote>>
transformVars == <<tpc, orders_data, deduplicated_data, order_row,
                   customer_identifier, is_guest>>
geoVars == <<gpc, postcodes, start, found_coordinates, batch_log>>
stampVars == <<utc_now, utc_offset, extraction_stamp>>
metaVars == <<metadata_list, meta_fields>>
itemVars == <<line_items, total_items, item_details>>
coordVars == <<shipping, order_postcodes, coordinates>>
mainVars == <<raw_order, main_stage, processed>>
moreVars == <<stampVars, metaVars, itemVars, coordVars, mainVars>>
unitVars == <<transformVars, geoVars, moreVars>>
pipelineVars == <<envVars, serverVars, durableVars, pc, runVars, fetchVars,
                  fetchObs, unfetched, runObs, loadObs>>

\* ------------------------------------------------------------ helpers
Min(a, b) == IF a < b THEN a ELSE b

Last(s) == s[Len(s)]

RECURSIVE Pow2(_)
\* 2 ** n
Pow2(n) == IF n = 0 THEN 1 ELSE 2 * Pow2(n - 1)

RECURSIVE Flatten(_)
\* The concatenation of a sequence of sequences.
Flatten(ss) == IF ss = <<>> THEN <<>> ELSE Head(ss) \o Flatten(Tail(ss))

RECURSIVE SortedIds(_)
\* The ids of S in ascending order.
SortedIds(S) ==
    IF S = {} THEN <<>>
    ELSE LET m == CHOOSE x \in S : \A y \in S : x <= y
         IN <<m>> \o SortedIds(S \ {m})

RECURSIVE Paginate(_, _)
\* recs cut into pages of len records; the last one may be short.
Paginate(recs, len) ==
    IF recs = <<>> THEN <<>>
    ELSE <<SubSeq(recs, 1, Min(len, Len(recs)))>>
         \o Paginate(SubSeq(recs, Min(len, Len(recs)) + 1, Len(recs)), len)

\* A raw order as the API returns it.
RawOrder(id, modified) == [id |-> id, date_modified |-> modified]

\* The orders of src the API lists for modified_after = since, by id.
Matching(src, since) ==
    LET ids == {o \in DOMAIN src : since = EmptyStr \/ src[o] > since}
        sorted == SortedIds(ids)
    IN [i \in 1..Len(sorted) |-> RawOrder(sorted[i], src[sorted[i]])]

\* ------------------------------------------------- abstraction caps
\* Against an endless server page, all_data and the log of calls grow
\* without limit.  There the page numbers from PageCap - 1 on are told
\* apart by their parity only (PageCap - 1, PageCap, PageCap - 1, ...),
\* all_data stops growing at DataCap records and the log of calls at
\* LogCap calls.  No cap is reached against a server whose pages end
\* (CapsUnreachedWhenPagesEnd).
PageCap == NumOrders + 2
DataCap == NumOrders + PageLen
LogCap == NumOrders + MaxFaults + 2

\* ------------------------------------------------------ request_data
\* A slip: modified_after is sent whether or not a checkpoint was read.
ParamKeysAlwaysFiltered(ep, le) ==
    {"per_page", "page", "modified_after"}
    \cup (IF ep = "orders" THEN {"status"} ELSE {})

\* The query parameters of a request: per_page and page always,
\* modified_after when a checkpoint was read, status for "orders".
ParamKeys(ep, le) ==
    {"per_page", "page"}
    \cup (IF le # EmptyStr THEN {"modified_after"} ELSE {})
    \cup (IF ep = "orders" THEN {"status"} ELSE {})

InitialParams(ep, le) ==
    [k \in ParamKeys(ep, le) |->
        CASE k = "per_page" -> per_page
          [] k = "page" -> 1
          [] k = "modified_after" -> le
          [] k = "status" -> "any"]

\* A slip: a linear delay, 2 * current_retry.
SleepTimeLinear(retry) == 2 * retry

\* The delay before a retry: 2 ** current_retry.
SleepTime(retry) == Pow2(retry)

\* if current_retry > 0: time.sleep(sleep_time); then requests.get(params)
Attempt ==
    /\ sleep_calls' = IF current_retry > 0
                      THEN Append(sleep_calls, SleepTime(current_retry))
                      ELSE sleep_calls
    /\ get_calls' = IF Len(get_calls) < LogCap
                    THEN Append(get_calls, params)
                    ELSE get_calls

\* The body the server answers a request for page p with.
ServerData(p) ==
    IF p <= Len(srv_pages) THEN srv_pages[p]
    ELSE IF srv_endless THEN srv_pages[((p - 1) % Len(srv_pages)) + 1]
    ELSE <<>>

\* A slip: all_data = data, the earlier pages are lost.
ExtendReplaces(acc, data) == data

\* all_data.extend(data)
Extend(acc, data) ==
    IF Len(acc) + Len(data) > DataCap THEN acc ELSE acc \o data

\* page += 1
NextPage(p) == IF p < PageCap THEN p + 1 ELSE PageCap - 1

\* A slip: the loop also ends at a page shorter than the longest one.
AccumulateStopsAtShortPage(data) ==
    IF data = <<>>
    THEN /\ pc' = "rd_returned"
         /\ UNCHANGED <<page, all_data, params>>
    ELSE /\ pc' = IF Len(data) < PageLen THEN "rd_returned" ELSE "request"
         /\ all_data' = Extend(all_data, data)
         /\ page' = NextPage(page)
         /\ params' = [params EXCEPT !["page"] = NextPage(page)]

\* What the loop does with a parsed body: an empty one ends the loop,
\* any other is accumulated and the next page is asked for.
Accumulate(data) ==
    IF data = <<>>
    THEN /\ pc' = "rd_returned"
         /\ UNCHANGED <<page, all_data, params>>
    ELSE /\ pc' = "request"
         /\ all_data' = Extend(all_data, data)
         /\ page' = NextPage(page)
         /\ params' = [params EXCEPT !["page"] = NextPage(page)]

\* What the except branch does with a RequestException.
OnRequestException ==
    IF current_retry < max_retries
    THEN /\ current_retry' = current_retry + 1
         /\ pc' = "request"
    ELSE /\ current_retry' = current_retry
         /\ pc' = "rd_returned"

\* The server answers: it is up.
ServerUp == srv_flaky \/ faults = 0

\* The server may fail a request or garble a body.
ServerMayFail == ~srv_endless

\* A slip: the counter is not reset, the budget is for the whole call.
RequestOkKeepsRetry ==
    /\ pc = "request"
    /\ ServerUp
    /\ Attempt
    /\ current_retry' = current_retry
    /\ fail_streak' = 0
    /\ retry_after' = 0
    /\ Accumulate(ServerData(params["page"]))
    /\ UNCHANGED <<envVars, serverVars, durableVars, runVars, endpoint,
                   faults, unfetched, runObs, loadObs>>
    /\ UNCHANGED unitVars

\* One pass of the loop: the request succeeds and its body parses.
RequestOk ==
    /\ pc = "request"
    /\ ServerUp
    /\ Attempt
    /\ current_retry' = 0
    /\ fail_streak' = 0
    /\ retry_after' = 0
    /\ Accumulate(ServerData(params["page"]))
    /\ UNCHANGED <<envVars, serverVars, durableVars, runVars, endpoint,
                   faults, unfetched, runObs, loadObs>>
    /\ UNCHANGED unitVars

\* One pass of the loop: the request succeeds, result.json() raises.
RequestBadJson ==
    /\ pc = "request"
    /\ ServerUp
    /\ ServerMayFail
    /\ Attempt
    /\ current_retry' = 0
    /\ fail_streak' = 0
    /\ retry_after' = 0
    /\ pc' = "rd_raised"
    /\ UNCHANGED <<envVars, serverVars, durableVars, runVars, endpoint,
                   page, all_data, params,
                   faults, unfetched, runObs, loadObs>>
    /\ UNCHANGED unitVars

\* One pass of the loop: requests.get or raise_for_status raises a
\* RequestException (connection error, timeout, HTTP 4xx/5xx).
RequestError ==
    /\ pc = "request"
    /\ ServerMayFail
    /\ faults < MaxFaults
    /\ Attempt
    /\ OnRequestException
    /\ retry_after' = 0
    /\ faults' = faults + 1
    /\ fail_streak' = fail_streak + 1
    /\ UNCHANGED <<envVars, serverVars, durableVars, runVars, endpoint,
                   page, all_data, params, unfetched, runObs, loadObs>>
    /\ UNCHANGED unitVars

\* One pass of the loop: the server answers 429 with Retry-After: h;
\* raise_for_status raises HTTPError, a RequestException.
Request429 ==
    /\ pc = "request"
    /\ ServerMayFail
    /\ faults < MaxFaults
    /\ \E h \in RetryAfterHints : retry_after' = h
    /\ Attempt
    /\ OnRequestException
    /\ faults' = faults + 1
    /\ fail_streak' = fail_streak + 1
    /\ UNCHANGED <<envVars, serverVars, durableVars, runVars, endpoint,
                   page, all_data, params, unfetched, runObs, loadObs>>
    /\ UNCHANGED unitVars

RequestStep == RequestOk \/ RequestBadJson \/ RequestError \/ Request429

\* ----------------------------------- request_data on its own (SpecFetch)
NoLoad == [records |-> <<>>, ok |-> FALSE]

\* None, NaN and a missing key: <<>>; a value v that is there: <<v>>.
None == <<>>

\* No call of transform's functions is under way.
TransformAtRest ==
    /\ tpc = "idle"
    /\ orders_data = <<>>
    /\ deduplicated_data = <<>>
    /\ order_row = [customer_id |-> None, billing |-> [email |-> None]]
    /\ customer_identifier = None
    /\ is_guest = FALSE

\* No call of get_coordinates is under way.
GeoAtRest ==
    /\ gpc = "idle"
    /\ postcodes = [kind |-> "list", items |-> <<>>]
    /\ start = 0
    /\ found_coordinates = <<>>
    /\ batch_log = <<>>

\* The metadata list before any is given: not a list yet.
NoMetadata == [kind |-> "none", items |-> <<>>]

\* The line items before any are given: not a list yet.
NoLineItems == [kind |-> "none", items |-> <<>>]

\* No call of the other functions is under way.

StampAtRest ==
    /\ utc_now = 0
    /\ utc_offset = 0
    /\ extraction_stamp = None

MetaAtRest ==
    /\ metadata_list = NoMetadata
    /\ meta_fields = None

ItemsAtRest ==
    /\ line_items = NoLineItems
    /\ total_items = 0
    /\ item_details = <<>>

CoordsAtRest ==
    /\ shipping = <<>>
    /\ order_postcodes = <<>>
    /\ coordinates = <<>>

MainAtRest ==
    /\ raw_order = <<>>
    /\ main_stage = 0
    /\ processed = None

MoreAtRest ==
    StampAtRest /\ MetaAtRest /\ ItemsAtRest /\ CoordsAtRest /\ MainAtRest

UnitsAtRest == TransformAtRest /\ GeoAtRest /\ MoreAtRest

\* The pages a server may hold: the orders of S, by id, in pages of len.
ServerPages(S, len) ==
    LET ids == SortedIds(S)
    IN Paginate([i \in 1..Len(ids) |-> RawOrder(ids[i], 1)], len)

InitFetch ==
    /\ clock = 0
    /\ source = [o \in {} |-> 0]
    /\ \E n \in 0..NumOrders, len \in 1..PageLen :
          srv_pages = ServerPages(1..n, len)
    /\ srv_endless \in BOOLEAN
    /\ srv_endless => srv_pages # <<>>
    /\ srv_flaky = TRUE
    /\ checkpoint_file = <<>>
    /\ checkpoint_torn = FALSE
    /\ table = EmptyBag
    /\ pc = "request"
    /\ last_extraction \in {EmptyStr, 0}
    /\ all_raw_data = <<>>
    /\ clean_data = <<>>
    /\ endpoint \in Endpoints
    /\ page = 1
    /\ all_data = <<>>
    /\ params = InitialParams(endpoint, last_extraction)
    /\ current_retry = 0
    /\ get_calls = <<>>
    /\ sleep_calls = <<>>
    /\ retry_after = 0
    /\ faults = 0
    /\ fail_streak = 0
    /\ unfetched = {}
    /\ upserted_ever = {}
    /\ checkpoint_at_start = <<>>
    /\ run_result = "none"
    /\ runs = 0
    /\ last_load = NoLoad
    /\ reloaded = FALSE
    /\ overwrote = FALSE
    /\ UnitsAtRest

NextFetch == RequestStep

SpecFetch == InitFetch /\ [][NextFetch]_vars

\* The loop runs on without waiting for anything but sleep and the network.
FairSpecFetch == SpecFetch /\ WF_vars(NextFetch)

Terminated == pc \in {"rd_returned", "rd_raised"}

\* The caps are artefacts of the endless server only.
CapsUnreachedWhenPagesEnd ==
    ~srv_endless =>
        page < PageCap /\ Len(all_data) < DataCap /\ Len(get_calls) < LogCap

\* --------------------------------------------------------- transform
\* The columns of the destination table (load.py, CREATE TABLE).
Columns ==
    {"order_id", "date_created", "date_modified", "date_paid", "status",
     "order_day", "customer_id", "customer_identifier", "is_guest",
     "order_total", "shipping_total", "total_tax", "discount_total",
     "total_items", "distinct_items", "latitude", "longitude",
     "payment_method", "device_type", "item_details", "coupon_details",
     "attribution_source", "campaign_source", "campaign_medium",
     "referrer_url"}

\* A canonical record: order oid with every other column at version v.
Row(oid, v) == [c \in Columns |-> IF c = "order_id" THEN oid ELSE v]

\* pd.to_datetime(..., errors="coerce") of a date that does not parse.
\* sort_values puts it last in either direction, as if it were before
\* every date.
NaT == -1

\* A slip: keep="last", the oldest version of each id survives.
DeduplicateKeepsLast(raw) ==
    LET ids == {raw[i].id : i \in DOMAIN raw}
        last(id) ==
            CHOOSE i \in DOMAIN raw :
                /\ raw[i].id = id
                /\ \A j \in DOMAIN raw : raw[j].id = id =>
                      \/ raw[j].date_modified > raw[i].date_modified
                      \/ raw[j].date_modified = raw[i].date_modified /\ j <= i
        sorted == SortedIds(ids)
    IN [k \in 1..Len(sorted) |-> raw[last(sorted[k])]]

\* sort_values(["id", "date_modified"], [True, False]) and
\* drop_duplicates("id", keep="first"): by id, and per id the record that
\* comes first when the latest date_modified goes first; the sort on two
\* keys is stable, so of two records with the same id and date the one
\* that was first in the batch stays first.
Deduplicate(raw) ==
    LET ids == {raw[i].id : i \in DOMAIN raw}
        first(id) ==
            CHOOSE i \in DOMAIN raw :
                /\ raw[i].id = id
                /\ \A j \in DOMAIN raw : raw[j].id = id =>
                      \/ raw[j].date_modified < raw[i].date_modified
                      \/ raw[j].date_modified = raw[i].date_modified /\ i <= j
        sorted == SortedIds(ids)
    IN [k \in 1..Len(sorted) |-> raw[first(sorted[k])]]

\* transform.main: an empty input gives an empty frame; otherwise one
\* canonical record per deduplicated order.  The output is sorted by
\* date_created; order ids grow with creation time, so that is by id.
TransformMain(raw) ==
    IF raw = <<>> THEN <<>>
    ELSE LET dedup == Deduplicate(raw)
         IN [i \in 1..Len(dedup) |-> Row(dedup[i].id, dedup[i].date_modified)]

\* --------------------------------------------------------------- load
\* The columns on_conflict_do_update sets from the excluded row.
SetColumns == Columns \ {"order_id"}

\* for i in range(0, len(seq), size): yield seq[i:i + size]
chunked(seq, size) ==
    [k \in 1..((Len(seq) + size - 1) \div size) |->
        SubSeq(seq, (k - 1) * size + 1, Min(k * size, Len(seq)))]

\* The rows of tbl with order_id oid.
RowsOf(tbl, oid) == {r \in BagToSet(tbl) : r["order_id"] = oid}

\* A slip: a plain INSERT into a table without the key.
UpsertRowInsertsOnly(tbl, row) == tbl (+) SetToBag({row})

\* A slip: the update adds the incoming value to the stored one.
UpsertRowAccumulates(tbl, row) ==
    LET hit == RowsOf(tbl, row["order_id"])
        updated(r) == [c \in Columns |-> IF c = "order_id" THEN r[c] ELSE r[c] + row[c]]
        kept == [r \in BagToSet(tbl) \ hit |-> tbl[r]]
    IN IF hit = {} THEN tbl (+) SetToBag({row})
       ELSE kept (+) SetToBag({updated(r) : r \in hit})

\* A slip: a column is missing from set_, the stored value stays.
UpsertRowKeepsReferrer(tbl, row) ==
    LET hit == RowsOf(tbl, row["order_id"])
        updated(r) == [c \in Columns |->
                          IF c \in SetColumns \ {"referrer_url"} THEN row[c] ELSE r[c]]
        kept == [r \in BagToSet(tbl) \ hit |-> tbl[r]]
    IN IF hit = {} THEN tbl (+) SetToBag({row})
       ELSE kept (+) SetToBag({updated(r) : r \in hit})

\* INSERT ... ON CONFLICT (order_id) DO UPDATE SET c = excluded.c, for one
\* row: a row with that order_id takes the incoming value of every set
\* column; without one the row is inserted.
UpsertRow(tbl, row) ==
    LET hit == RowsOf(tbl, row["order_id"])
        updated(r) == [c \in Columns |-> IF c \in SetColumns THEN row[c] ELSE r[c]]
        kept == [r \in BagToSet(tbl) \ hit |-> tbl[r]]
    IN IF hit = {} THEN tbl (+) SetToBag({row})
       ELSE kept (+) SetToBag({updated(r) : r \in hit})

RECURSIVE ExecuteBatch(_, _)
\* conn.execute(upsert_sql) for one batch.
ExecuteBatch(tbl, batch) ==
    IF batch = <<>> THEN tbl
    ELSE ExecuteBatch(UpsertRow(tbl, Head(batch)), Tail(batch))

RECURSIVE ExecuteBatches(_, _)
ExecuteBatches(tbl, batches) ==
    IF batches = <<>> THEN tbl
    ELSE ExecuteBatches(ExecuteBatch(tbl, Head(batches)), Tail(batches))

\* A slip: each batch is committed as it is executed (engine.connect()
\* with autocommit), the batches before the failing one stay.
LoadMainAutocommit(tbl, recs, fail_at) ==
    IF recs = <<>> THEN [ok |-> TRUE, table |-> tbl]
    ELSE IF fail_at \in 1..Len(chunked(recs, rows_per_batch))
    THEN [ok |-> FALSE,
          table |-> ExecuteBatches(tbl,
                       SubSeq(chunked(recs, rows_per_batch), 1, fail_at - 1))]
    ELSE [ok |-> TRUE,
          table |-> ExecuteBatches(tbl, chunked(recs, rows_per_batch))]

\* load.main(clean_data): nothing to do for an empty frame; otherwise the
\* batches run in one transaction (with engine.begin()), which commits when
\* all of them ran and rolls back when the execution of batch fail_at
\* raises (fail_at = 0: none does).
LoadMain(tbl, recs, fail_at) ==
    IF recs = <<>> THEN [ok |-> TRUE, table |-> tbl]
    ELSE IF fail_at \in 1..Len(chunked(recs, rows_per_batch))
    THEN [ok |-> FALSE, table |-> tbl]
    ELSE [ok |-> TRUE,
          table |-> ExecuteBatches(tbl, chunked(recs, rows_per_batch))]

\* What a load leaves in the observations.
Loaded(recs, res) ==
    /\ table' = res.table
    /\ last_load' = [records |-> recs, ok |-> res.ok]
    /\ reloaded' = (res.ok /\ last_load.ok /\ recs # <<>> /\ recs = last_load.records)
    /\ overwrote' = (res.ok /\ \E i \in DOMAIN recs :
                        /\ RowsOf(table, recs[i]["order_id"]) # {}
                        /\ recs[i] \notin RowsOf(table, recs[i]["order_id"]))
    /\ upserted_ever' = IF res.ok
                        THEN upserted_ever \cup {recs[i]["order_id"] : i \in DOMAIN recs}
                        ELSE upserted_ever

\* -------------------------------------------- the sink on its own (SpecLoad)
RECURSIVE RowSeqs(_)
\* The frames transform can hand over for the orders of S: one row per
\* order, by id, each at some version.
RowSeqs(ids) ==
    IF ids = <<>> THEN {<<>>}
    ELSE {<<Row(Head(ids), v)>> \o rest : v \in Versions, rest \in RowSeqs(Tail(ids))}

LoadInputs ==
    UNION {RowSeqs(SortedIds(S)) :
           S \in {T \in SUBSET (1..NumOrders) : Cardinality(T) <= MaxLoadRows}}

\* The quiescent values of everything a run uses.
Quiescent ==
    /\ srv_pages = <<>>
    /\ srv_endless = FALSE
    /\ srv_flaky = FALSE
    /\ pc = "idle"
    /\ last_extraction = EmptyStr
    /\ all_raw_data = <<>>
    /\ clean_data = <<>>
    /\ endpoint = "orders"
    /\ page = 1
    /\ all_data = <<>>
    /\ params = InitialParams("orders", EmptyStr)
    /\ current_retry = 0
    /\ get_calls = <<>>
    /\ sleep_calls = <<>>
    /\ retry_after = 0
    /\ faults = 0
    /\ fail_streak = 0

\* Nothing has run yet: an empty shop, no checkpoint file, an empty table.
PipelineAtRest ==
    /\ clock = 0
    /\ source = [o \in {} |-> 0]
    /\ checkpoint_file = <<>>
    /\ checkpoint_torn = FALSE
    /\ table = EmptyBag
    /\ Quiescent
    /\ unfetched = {}
    /\ upserted_ever = {}
    /\ checkpoint_at_start = <<>>
    /\ run_result = "none"
    /\ runs = 0
    /\ last_load = NoLoad
    /\ reloaded = FALSE
    /\ overwrote = FALSE

Init == PipelineAtRest /\ UnitsAtRest

\* load.main is called with a frame; its transaction commits.
SinkLoad ==
    /\ \E recs \in LoadInputs : Loaded(recs, LoadMain(table, recs, 0))
    /\ UNCHANGED <<envVars, serverVars, checkpoint_file, checkpoint_torn, pc, runVars,
                   fetchVars, fetchObs, unfetched, runObs>>
    /\ UNCHANGED unitVars

\* load.main is called with a frame; the execution of a batch raises.
SinkLoadFails ==
    /\ \E recs \in LoadInputs :
          \E k \in 1..Len(chunked(recs, rows_per_batch)) :
              Loaded(recs, LoadMain(table, recs, k))
    /\ UNCHANGED <<envVars, serverVars, checkpoint_file, checkpoint_torn, pc, runVars,
                   fetchVars, fetchObs, unfetched, runObs>>
    /\ UNCHANGED unitVars

NextLoad == SinkLoad \/ SinkLoadFails

SpecLoad == Init /\ [][NextLoad]_vars

\* ------------------------------- the deduplication on its own (SpecDedup)
\* The ids, the dates of modification and the totals of the raw orders of
\* a batch; two versions of an order differ in date or total.
BatchIds == {1, 2}
ModifiedDates == {NaT, 1, 2}
Totals == {10, 20}

RawRecords == [id : BatchIds, date_modified : ModifiedDates, total : Totals]

\* The batches extraction may hand over: up to MaxBatch raw orders in any
\* order, an id any number of times.
RawBatches == UNION {[1..n -> RawRecords] : n \in 0..MaxBatch}

InitDedup ==
    /\ PipelineAtRest
    /\ GeoAtRest
    /\ tpc = "main"
    /\ orders_data \in RawBatches
    /\ deduplicated_data = <<>>
    /\ order_row = [customer_id |-> None, billing |-> [email |-> None]]
    /\ customer_identifier = None
    /\ is_guest = FALSE
    /\ MoreAtRest

\* transform.main up to drop_duplicates: an empty batch returns an empty
\* frame at once.
DropDuplicates ==
    /\ tpc = "main"
    /\ deduplicated_data' = IF orders_data = <<>> THEN <<>>
                            ELSE Deduplicate(orders_data)
    /\ tpc' = "deduplicated"
    /\ UNCHANGED <<pipelineVars, geoVars, orders_data, order_row,
                   customer_identifier, is_guest>>
    /\ UNCHANGED moreVars

NextDedup == DropDuplicates

SpecDedup == InitDedup /\ [][NextDedup]_vars

\* ---------------------------- the customer columns on their own (SpecCustomer)
\* A string is the sequence of its characters.
Chars == {"a", "A", "b", " "}

\* str.lower() of a character.
LowerChar(c) == IF c = "A" THEN "a" ELSE IF c = "B" THEN "b" ELSE c

\* str.lower()
Lower(str) == [i \in DOMAIN str |-> LowerChar(str[i])]

RECURSIVE LStrip(_)
LStrip(str) ==
    IF str # <<>> /\ Head(str) = " " THEN LStrip(Tail(str)) ELSE str

RECURSIVE RStrip(_)
RStrip(str) ==
    IF str # <<>> /\ Last(str) = " "
    THEN RStrip(SubSeq(str, 1, Len(str) - 1))
    ELSE str

\* str.strip()
Strip(str) == RStrip(LStrip(str))

DigitChars == <<"0", "1", "2", "3", "4", "5", "6", "7", "8", "9">>

RECURSIVE IntToStr(_)
\* str(int(n)) for n >= 0: the decimal digits of n.
IntToStr(n) ==
    IF n < 10 THEN <<DigitChars[n + 1]>>
    ELSE IntToStr(n \div 10) \o <<DigitChars[(n % 10) + 1]>>

\* hashlib.sha256(bytes).hexdigest(): a function of the bytes that takes no
\* value twice; the digest of b is written as b behind a mark.
Sha256Hex(bytes) == <<"sha256">> \o bytes

\* A slip: .lower() is left out.
create_customer_identifier_case_sensitive(row) ==
    IF row.customer_id # None /\ row.customer_id[1] > 0
    THEN <<IntToStr(row.customer_id[1])>>
    ELSE IF row.billing.email # None /\ Strip(row.billing.email[1]) # <<>>
    THEN <<Sha256Hex(Strip(row.billing.email[1]))>>
    ELSE None

\* create_customer_identifier(order_row): the number of customer_id as a
\* string when it is a number above 0; else the digest of the stripped,
\* lowercased billing email when there is one that is not blank; else None.
create_customer_identifier(row) ==
    IF row.customer_id # None /\ row.customer_id[1] > 0
    THEN <<IntToStr(row.customer_id[1])>>
    ELSE IF row.billing.email # None /\ Strip(row.billing.email[1]) # <<>>
    THEN <<Sha256Hex(Lower(Strip(row.billing.email[1])))>>
    ELSE None

\* customer_id.fillna(0).astype(int) == 0, for one row.
IsGuest(customer_id) ==
    (IF customer_id = None THEN 0 ELSE customer_id[1]) = 0

\* The values of customer_id: missing, negative, 0, one and two digits.
CustomerIds == {None, <<-1>>, <<0>>, <<7>>, <<12>>}

\* The billing emails: every string of up to MaxEmailLen characters.
Emails == UNION {[1..n -> Chars] : n \in 0..MaxEmailLen}

\* The rows: billing is a mapping, with or without an email.
OrderRows ==
    [customer_id : CustomerIds,
     billing : [email : {None} \cup {<<e>> : e \in Emails}]]

InitCustomer ==
    /\ PipelineAtRest
    /\ GeoAtRest
    /\ tpc = "row"
    /\ orders_data = <<>>
    /\ deduplicated_data = <<>>
    /\ order_row \in OrderRows
    /\ customer_identifier = None
    /\ is_guest = FALSE
    /\ MoreAtRest

\* deduplicated_data.apply(create_customer_identifier, axis=1), for one row.
CreateCustomerIdentifier ==
    /\ tpc = "row"
    /\ customer_identifier' = create_customer_identifier(order_row)
    /\ tpc' = "identified"
    /\ UNCHANGED <<pipelineVars, geoVars, orders_data, deduplicated_data,
                   order_row, is_guest>>
    /\ UNCHANGED moreVars

\* deduplicated_data["is_guest"] = ..., for one row.
MarkGuest ==
    /\ tpc = "identified"
    /\ is_guest' = IsGuest(order_row.customer_id)
    /\ tpc' = "marked"
    /\ UNCHANGED <<pipelineVars, geoVars, orders_data, deduplicated_data,
                   order_row, customer_identifier>>
    /\ UNCHANGED moreVars

NextCustomer == CreateCustomerIdentifier \/ MarkGuest

SpecCustomer == InitCustomer /\ [][NextCustomer]_vars

\* ------------------------------------ get_coordinates on its own (SpecGeo)
\* for start in range(0, len(postcodes), 100): scaled to 2, so that
\* MaxPostcodes postcodes span more than one batch.
geo_batch_size == 2

\* (None, None)
Null == <<None, None>>

\* What postcodes.io knows, in thousandths of a degree; it has no entry
\* for "ZZ9 9ZZ".
Gazetteer ==
    [p \in {"SW1A 1AA", "M1 1AE"} |->
        IF p = "SW1A 1AA" THEN [latitude |-> 51501, longitude |-> -142]
        ELSE [latitude |-> 53477, longitude |-> -2233]]

\* round(x, 2) of thousandths, in hundredths.
Round2(x) == IF x >= 0 THEN (x + 5) \div 10 ELSE -((5 - x) \div 10)

\* The items of the list: None, or a formatted postcode.
PostcodeItems == {None, <<"SW1A 1AA">>, <<"M1 1AE">>, <<"ZZ9 9ZZ">>}

\* The types of the argument: a list, or what Series.unique() returns.
PostcodeKinds == {"list", "ndarray"}

\* [postcode for postcode in postcodes[start : start + 100] if postcode]
BatchAt(items, from) ==
    LET slice == SubSeq(items, from + 1, Min(from + geo_batch_size, Len(items)))
    IN SelectSeq(slice, LAMBDA x : x # None)

\* The postcodes of a batch, as a set of strings.
BatchSet(batch) == {batch[i][1] : i \in DOMAIN batch}

\* The loop over data["result"] of a body with status 200: the rounded
\* coordinates of a postcode with a result, (None, None) without one.
StoreResults(found, batch) ==
    [p \in DOMAIN found \cup BatchSet(batch) |->
        IF p \in BatchSet(batch)
        THEN IF p \in DOMAIN Gazetteer
             THEN << <<Round2(Gazetteer[p].latitude)>>,
                     <<Round2(Gazetteer[p].longitude)>> >>
             ELSE Null
        ELSE found[p]]

\* A slip: the results so far are dropped when a batch fails.
MarkUnresolvedOnly(found, batch) == [p \in BatchSet(batch) |-> Null]

\* for postcode in batch: found_coordinates[postcode] = (None, None)
MarkUnresolved(found, batch) ==
    [p \in DOMAIN found \cup BatchSet(batch) |->
        IF p \in BatchSet(batch) THEN Null ELSE found[p]]

\* The ways the lookup of a batch fails: requests.post raises, the HTTP
\* status is not a success, the body's status field is not 200.
BatchFailures == {"network_error", "http_error", "status_not_200"}

InitGeo ==
    /\ PipelineAtRest
    /\ TransformAtRest
    /\ gpc = "called"
    /\ postcodes \in [kind : PostcodeKinds,
                      items : UNION {[1..n -> PostcodeItems] : n \in 0..MaxPostcodes}]
    /\ start = 0
    /\ found_coordinates = <<>>
    /\ batch_log = <<>>
    /\ MoreAtRest

\* if not isinstance(postcodes, (list, pd.Series)): return found_coordinates
GeoTypeCheck ==
    /\ gpc = "called"
    /\ gpc' = IF postcodes.kind = "list" THEN "loop" ELSE "returned"
    /\ UNCHANGED <<pipelineVars, transformVars, postcodes, start,
                   found_coordinates, batch_log>>
    /\ UNCHANGED moreVars

\* The loop is at start and has a batch to look up.
AtBatch ==
    /\ gpc = "loop"
    /\ start < Len(postcodes.items)
    /\ BatchAt(postcodes.items, start) # <<>>

\* if not batch: continue
GeoSkipEmptyBatch ==
    /\ gpc = "loop"
    /\ start < Len(postcodes.items)
    /\ BatchAt(postcodes.items, start) = <<>>
    /\ start' = start + geo_batch_size
    /\ UNCHANGED <<pipelineVars, transformVars, gpc, postcodes,
                   found_coordinates, batch_log>>
    /\ UNCHANGED moreVars

\* The lookup of the batch answers with status 200.
GeoLookupOk ==
    /\ AtBatch
    /\ found_coordinates' =
          StoreResults(found_coordinates, BatchAt(postcodes.items, start))
    /\ batch_log' = Append(batch_log,
          [batch |-> BatchAt(postcodes.items, start), outcome |-> "ok"])
    /\ start' = start + geo_batch_size
    /\ UNCHANGED <<pipelineVars, transformVars, gpc, postcodes>>
    /\ UNCHANGED moreVars

\* The lookup of the batch fails: the except branch, or the else branch of
\* the status test.
GeoLookupFails ==
    /\ AtBatch
    /\ \E failure \in BatchFailures :
          batch_log' = Append(batch_log,
              [batch |-> BatchAt(postcodes.items, start), outcome |-> failure])
    /\ found_coordinates' =
          MarkUnresolved(found_coordinates, BatchAt(postcodes.items, start))
    /\ start' = start + geo_batch_size
    /\ UNCHANGED <<pipelineVars, transformVars, gpc, postcodes>>
    /\ UNCHANGED moreVars

\* The body of a successful answer does not parse: response.json() raises
\* requests' JSONDecodeError, a RequestException in the releases that have
\* it (the except branch runs) and a plain ValueError in the older ones
\* (get_coordinates raises).
GeoBadBody ==
    /\ AtBatch
    /\ batch_log' = Append(batch_log,
          [batch |-> BatchAt(postcodes.items, start), outcome |-> "bad_body"])
    /\ \/ /\ found_coordinates' =
                MarkUnresolved(found_coordinates, BatchAt(postcodes.items, start))
          /\ start' = start + geo_batch_size
          /\ UNCHANGED gpc
       \/ /\ gpc' = "raised"
          /\ UNCHANGED <<found_coordinates, start>>
    /\ UNCHANGED <<pipelineVars, transformVars, postcodes>>
    /\ UNCHANGED moreVars

\* The range is exhausted: return found_coordinates.
GeoReturn ==
    /\ gpc = "loop"
    /\ start >= Len(postcodes.items)
    /\ gpc' = "returned"
    /\ UNCHANGED <<pipelineVars, transformVars, postcodes, start,
                   found_coordinates, batch_log>>
    /\ UNCHANGED moreVars

NextGeo ==
    \/ GeoTypeCheck
    \/ GeoSkipEmptyBatch
    \/ GeoLookupOk
    \/ GeoLookupFails
    \/ GeoBadBody
    \/ GeoReturn

SpecGeo == InitGeo /\ [][NextGeo]_vars

\* ------------------------------ the saved timestamp on its own (SpecStamp)
\* The time zones of the machine, in minutes east of UTC.
UtcOffsets == {-300, 0, 60, 330}

\* The instants of the call: the minutes after a midnight of UTC.
UtcNows == {1440 + k : k \in 0..MaxUtcNow}

\* datetime.now(): the wall clock of the machine, without a time zone.
datetime_now == utc_now + utc_offset

\* datetime.isoformat() of a datetime without a time zone: the day, the
\* hour and the minute, and no suffix.
isoformat(minutes) ==
    [day |-> minutes \div 1440,
     hour |-> (minutes % 1440) \div 60,
     minute |-> minutes % 60,
     suffix |-> ""]

InitStamp ==
    /\ PipelineAtRest
    /\ TransformAtRest
    /\ GeoAtRest
    /\ utc_now \in UtcNows
    /\ utc_offset \in UtcOffsets
    /\ extraction_stamp = None
    /\ MetaAtRest
    /\ ItemsAtRest
    /\ CoordsAtRest
    /\ MainAtRest

\* extraction_time = (datetime.now() - timedelta(minutes=2)).isoformat()
ComputeExtractionTime ==
    /\ extraction_stamp = None
    /\ extraction_stamp' = <<isoformat(datetime_now - MarginMinutes)>>
    /\ UNCHANGED <<pipelineVars, transformVars, geoVars, utc_now, utc_offset,
                   metaVars, itemVars, coordVars, mainVars>>

NextStamp == ComputeExtractionTime

SpecStamp == InitStamp /\ [][NextStamp]_vars

\* ------------------------------------ simplify_metadata on its own (SpecMeta)
\* The keys of the metadata items: the six the function maps, and one
\* that stands for every other key.
MetaKeys ==
    {"_wc_order_attribution_device_type",
     "_wc_order_attribution_source_type",
     "_wc_order_attribution_utm_source",
     "_wc_order_attribution_utm_medium",
     "_wc_order_attribution_referrer",
     "_wc_order_attribution_session_referrer",
     "_other"}

\* The values of the metadata items; "" is the falsy one.
MetaValues == {"", "x", "y"}

MetaItems == [key : MetaKeys, value : MetaValues]

\* The meta_data of an order: a list of items, or something that is not
\* a list.
MetaLists ==
    {[kind |-> "list", items |-> l] :
        l \in UNION {[1..n -> MetaItems] : n \in 0..MaxMeta}}
    \cup {NoMetadata}

\* The result before the loop.
MetaDefaults ==
    [device_type |-> "Unknown",
     attribution_source |-> None,
     campaign_source |-> None,
     campaign_medium |-> None,
     referrer_url |-> None]

\* One pass of the loop body over an item.
MetaStep(result, item) ==
    LET key == item.key
        val == item.value
    IN  IF key = "_wc_order_attribution_device_type" /\ val # ""
        THEN [result EXCEPT !.device_type = val]
        ELSE IF key = "_wc_order_attribution_source_type" /\ val # ""
        THEN [result EXCEPT !.attribution_source = <<val>>]
        ELSE IF key = "_wc_order_attribution_utm_source" /\ val # ""
        THEN [result EXCEPT !.campaign_source = <<val>>]
        ELSE IF key = "_wc_order_attribution_utm_medium" /\ val # ""
        THEN [result EXCEPT !.campaign_medium = <<val>>]
        ELSE IF /\ key = "_wc_order_attribution_referrer"
                /\ val # ""
                /\ result.referrer_url = None
        THEN [result EXCEPT !.referrer_url = <<val>>]
        ELSE IF /\ key = "_wc_order_attribution_session_referrer"
                /\ val # ""
                /\ result.referrer_url = None
        THEN [result EXCEPT !.referrer_url = <<val>>]
        ELSE result

\* The loop body when a field that is already set is left alone.
MetaStepFirstWins(result, item) ==
    LET key == item.key
        val == item.value
    IN  IF /\ key = "_wc_order_attribution_device_type"
           /\ val # ""
           /\ result.device_type = "Unknown"
        THEN [result EXCEPT !.device_type = val]
        ELSE IF /\ key = "_wc_order_attribution_source_type"
                /\ val # ""
                /\ result.attribution_source = None
        THEN [result EXCEPT !.attribution_source = <<val>>]
        ELSE IF /\ key = "_wc_order_attribution_utm_source"
                /\ val # ""
                /\ result.campaign_source = None
        THEN [result EXCEPT !.campaign_source = <<val>>]
        ELSE IF /\ key = "_wc_order_attribution_utm_medium"
                /\ val # ""
                /\ result.campaign_medium = None
        THEN [result EXCEPT !.campaign_medium = <<val>>]
        ELSE IF key \in {"_wc_order_attribution_referrer",
                         "_wc_order_attribution_session_referrer"}
                /\ val # ""
                /\ result.referrer_url = None
        THEN [result EXCEPT !.referrer_url = <<val>>]
        ELSE result

RECURSIVE MetaLoop(_, _)
MetaLoop(items, result) ==
    IF items = <<>> THEN result
    ELSE MetaLoop(Tail(items), MetaStep(result, Head(items)))

RECURSIVE MetaLoopFirstWins(_, _)
MetaLoopFirstWins(items, result) ==
    IF items = <<>> THEN result
    ELSE MetaLoopFirstWins(Tail(items), MetaStepFirstWins(result, Head(items)))

simplify_metadata_first_wins(metadata) ==
    IF metadata.kind # "list" THEN MetaDefaults
    ELSE MetaLoopFirstWins(metadata.items, MetaDefaults)

simplify_metadata(metadata) ==
    IF metadata.kind # "list" THEN MetaDefaults
    ELSE MetaLoop(metadata.items, MetaDefaults)

InitMeta ==
    /\ PipelineAtRest
    /\ TransformAtRest
    /\ GeoAtRest
    /\ StampAtRest
    /\ metadata_list \in MetaLists
    /\ meta_fields = None
    /\ ItemsAtRest
    /\ CoordsAtRest
    /\ MainAtRest

\* deduplicated_data["meta_data"].apply(simplify_metadata)
SimplifyMetadata ==
    /\ meta_fields = None
    /\ meta_fields' = <<simplify_metadata(metadata_list)>>
    /\ UNCHANGED <<pipelineVars, transformVars, geoVars, stampVars,
                   metadata_list, itemVars, coordVars, mainVars>>

NextMeta == SimplifyMetadata

SpecMeta == InitMeta /\ [][NextMeta]_vars

\* ------------------------------- the line items of an order (SpecItems)
\* What item.get("quantity", 0) may give: an integer (or its decimal
\* string), a string that is no number, None, or the default of a missing
\* key.
Quantities ==
    {[kind |-> "num", v |-> 1], [kind |-> "num", v |-> 2],
     [kind |-> "text", v |-> 0], [kind |-> "null", v |-> 0],
     [kind |-> "missing", v |-> 0]}

\* What item.get("price", 0) may give, in thousandths: 10.00 and 3.333,
\* a string that is no number, None, or the default of a missing key.
Prices ==
    {[kind |-> "num", v |-> 10000], [kind |-> "num", v |-> 3333],
     [kind |-> "text", v |-> 0], [kind |-> "null", v |-> 0],
     [kind |-> "missing", v |-> 0]}

LineItemRecords ==
    [product_id : {7}, name : {"Fish"}, quantity : Quantities, price : Prices]

\* The line_items of an order: a list of items, or something that is not
\* a list.
LineItemLists ==
    {[kind |-> "list", items |-> l] :
        l \in UNION {[1..n -> LineItemRecords] : n \in 0..MaxItems}}
    \cup {NoLineItems}

\* int(x) and float(x) raise ValueError on a string that is no number and
\* TypeError on None.
Converts(x) == x.kind \in {"num", "missing"}

RECURSIVE SumQuantities(_)
SumQuantities(items) ==
    IF items = <<>> THEN 0
    ELSE Head(items).quantity.v + SumQuantities(Tail(items))

\* count_total_items raises when int() does.
CountRaises(item_list) ==
    /\ item_list.kind = "list"
    /\ \E i \in DOMAIN item_list.items : ~Converts(item_list.items[i].quantity)

count_total_items(item_list) ==
    IF item_list.kind = "list" THEN SumQuantities(item_list.items) ELSE 0

\* The entry appended for an item; total_price in hundredths.
SimpleItem(item) ==
    [product_id |-> item.product_id,
     name |-> item.name,
     quantity |-> item.quantity.v,
     total_price |-> Round2(item.price.v * item.quantity.v)]

RECURSIVE SimplifyLoop(_)
SimplifyLoop(items) ==
    IF items = <<>> THEN <<>>
    ELSE IF Converts(Head(items).quantity) /\ Converts(Head(items).price)
         THEN <<SimpleItem(Head(items))>> \o SimplifyLoop(Tail(items))
         ELSE SimplifyLoop(Tail(items))

simplify_line_items(line_items_list) ==
    IF line_items_list.kind # "list" THEN <<>>
    ELSE SimplifyLoop(line_items_list.items)

InitItems ==
    /\ PipelineAtRest
    /\ GeoAtRest
    /\ tpc = "items"
    /\ orders_data = <<>>
    /\ deduplicated_data = <<>>
    /\ order_row = [customer_id |-> None, billing |-> [email |-> None]]
    /\ customer_identifier = None
    /\ is_guest = FALSE
    /\ StampAtRest
    /\ MetaAtRest
    /\ line_items \in LineItemLists
    /\ total_items = 0
    /\ item_details = <<>>
    /\ CoordsAtRest
    /\ MainAtRest

itemsFrame ==
    <<pipelineVars, geoVars, stampVars, metaVars, coordVars, mainVars,
      orders_data, deduplicated_data, order_row, customer_identifier,
      is_guest, line_items>>

\* deduplicated_data["line_items"].apply(count_total_items)
CountTotalItems ==
    /\ tpc = "items"
    /\ ~CountRaises(line_items)
    /\ total_items' = count_total_items(line_items)
    /\ tpc' = "counted"
    /\ UNCHANGED <<itemsFrame, item_details>>

\* int() raises inside count_total_items: nothing in main catches it.
CountTotalItemsRaises ==
    /\ tpc = "items"
    /\ CountRaises(line_items)
    /\ tpc' = "raised"
    /\ UNCHANGED <<itemsFrame, total_items, item_details>>

\* deduplicated_data["line_items"].apply(simplify_line_items)
SimplifyLineItems ==
    /\ tpc = "counted"
    /\ item_details' = simplify_line_items(line_items)
    /\ tpc' = "simplified"
    /\ UNCHANGED <<itemsFrame, total_items>>

NextItems == CountTotalItems \/ CountTotalItemsRaises \/ SimplifyLineItems

SpecItems == InitItems /\ [][NextItems]_vars

\* ------------------------------------ add_coordinates on its own (SpecCoords)
\* A raw postcode is a sequence of tokens: runs of whitespace and words.
Whitespace == {" ", "  "}

\* str.upper() of a word.
UpperWord(w) ==
    CASE w = "m1" -> "M1"
      [] w = "1ae" -> "1AE"
      [] w = "sw1a" -> "SW1A"
      [] w = "1aa" -> "1AA"
      [] OTHER -> w

\* " ".join(words) of the words of a postcode.
JoinWords(words) ==
    CASE words = <<"M1", "1AE">> -> "M1 1AE"
      [] words = <<"SW1A", "1AA">> -> "SW1A 1AA"
      [] words = <<"ZZ9", "9ZZ">> -> "ZZ9 9ZZ"
      [] words = <<"M11AE">> -> "M11AE"

\* The postcodes as the shop sends them.
RawPostcodes ==
    {<<"m1", " ", "1ae">>, <<" ", "M1", "  ", "1AE", " ">>,
     <<"sw1a", " ", "1aa">>, <<"ZZ9", " ", "9ZZ">>, <<"M11AE">>,
     <<" ">>, <<>>}

\* The shipping value of an order: None, or the address with its postcode.
ShippingValues ==
    {None} \cup {<<[postcode |-> None]>>}
           \cup {<<[postcode |-> <<raw>>]>> : raw \in RawPostcodes}

\* str(value).strip().upper().split(): the words, in upper case.
UpperWords(raw) ==
    LET words == SelectSeq(raw, LAMBDA t : t \notin Whitespace)
    IN  [i \in DOMAIN words |-> UpperWord(words[i])]

format_postcode(value) ==
    IF value = None THEN None
    ELSE IF value[1].postcode = None THEN None
    ELSE IF UpperWords(value[1].postcode[1]) = <<>> THEN None
    ELSE <<JoinWords(UpperWords(value[1].postcode[1]))>>

\* Series.unique(): the values in the order of their first appearance.
RECURSIVE Unique(_)
Unique(values) ==
    IF values = <<>> THEN <<>>
    ELSE LET front == Unique(SubSeq(values, 1, Len(values) - 1))
             last == values[Len(values)]
         IN  IF \E i \in DOMAIN front : front[i] = last THEN front
             ELSE Append(front, last)

\* all_locations.get(postcode, (None, None))
LocationOf(all_locations, postcode) ==
    IF postcode # None /\ postcode[1] \in DOMAIN all_locations
    THEN all_locations[postcode[1]]
    ELSE Null

InitCoords ==
    /\ PipelineAtRest
    /\ GeoAtRest
    /\ tpc = "add_coordinates"
    /\ orders_data = <<>>
    /\ deduplicated_data = <<>>
    /\ order_row = [customer_id |-> None, billing |-> [email |-> None]]
    /\ customer_identifier = None
    /\ is_guest = FALSE
    /\ StampAtRest
    /\ MetaAtRest
    /\ ItemsAtRest
    /\ shipping \in UNION {[1..n -> ShippingValues] : n \in 0..MaxShipOrders}
    /\ order_postcodes = <<>>
    /\ coordinates = <<>>
    /\ MainAtRest

coordsFrame ==
    <<pipelineVars, stampVars, metaVars, itemVars, mainVars, orders_data,
      deduplicated_data, order_row, customer_identifier, is_guest, shipping>>

\* order_postcodes = orders_data["shipping"].apply(format_postcode)
FormatPostcodes ==
    /\ tpc = "add_coordinates"
    /\ order_postcodes' = [i \in DOMAIN shipping |-> format_postcode(shipping[i])]
    /\ tpc' = "formatted"
    /\ UNCHANGED <<coordsFrame, geoVars, coordinates>>

\* all_locations = get_coordinates(unique_postcodes): the argument is what
\* Series.unique() returns, an array and neither a list nor a Series.
CallGetCoordinates ==
    /\ tpc = "formatted"
    /\ gpc = "idle"
    /\ Len(Unique(order_postcodes)) > 0
    /\ postcodes' = [kind |-> "ndarray", items |-> Unique(order_postcodes)]
    /\ gpc' = "called"
    /\ UNCHANGED <<coordsFrame, tpc, start, found_coordinates, batch_log,
                   order_postcodes, coordinates>>

\* else: all_locations = {}
SkipGetCoordinates ==
    /\ tpc = "formatted"
    /\ gpc = "idle"
    /\ Len(Unique(order_postcodes)) = 0
    /\ gpc' = "returned"
    /\ UNCHANGED <<coordsFrame, tpc, postcodes, start, found_coordinates,
                   batch_log, order_postcodes, coordinates>>

\* coordinates_series = order_postcodes.apply(all_locations.get, ...), and
\* the latitude and longitude columns taken from it.
MergeCoordinates ==
    /\ tpc = "formatted"
    /\ gpc = "returned"
    /\ coordinates' =
          [i \in DOMAIN order_postcodes |->
              LocationOf(found_coordinates, order_postcodes[i])]
    /\ tpc' = "merged"
    /\ UNCHANGED <<coordsFrame, geoVars, order_postcodes>>

\* Of get_coordinates only the type test runs: called from add_coordinates
\* its argument is never a list, and the loop is not reached.
NextCoords ==
    \/ FormatPostcodes
    \/ CallGetCoordinates
    \/ SkipGetCoordinates
    \/ GeoTypeCheck
    \/ MergeCoordinates

SpecCoords == InitCoords /\ [][NextCoords]_vars

\* ------------------------------------ transform.main, one order (SpecMain)
\* The digit a character stands for.
DigitOf(c) == CHOOSE d \in 0..9 : DigitChars[d + 1] = c

IsDigits(str) ==
    \A i \in DOMAIN str : \E d \in DOMAIN DigitChars : DigitChars[d] = str[i]

RECURSIVE DigitsValue(_)
DigitsValue(str) ==
    IF str = <<>> THEN 0
    ELSE 10 * DigitsValue(SubSeq(str, 1, Len(str) - 1)) + DigitOf(str[Len(str)])

\* pd.to_numeric(value, errors="coerce") of a decimal string with up to two
\* places, in hundredths; NaN for a string that is no number.
to_numeric(str) ==
    LET dots == {i \in DOMAIN str : str[i] = "."}
    IN  IF dots = {} /\ str # <<>> /\ IsDigits(str)
        THEN <<100 * DigitsValue(str)>>
        ELSE IF Cardinality(dots) = 1
        THEN LET dot == CHOOSE i \in dots : TRUE
                 whole == SubSeq(str, 1, dot - 1)
                 places == SubSeq(str, dot + 1, Len(str))
             IN  IF /\ IsDigits(whole) /\ IsDigits(places)
                    /\ Len(whole) + Len(places) > 0 /\ Len(places) <= 2
                 THEN <<100 * DigitsValue(whole)
                         + (IF Len(places) = 1 THEN 10 ELSE 1) * DigitsValue(places)>>
                 ELSE None
        ELSE None

\* The keys of the raw order of the end-to-end scenario.
ScenarioKeys ==
    {"id", "date_modified", "total", "shipping_total", "customer_id",
     "billing", "line_items", "meta_data"}

\* The other keys main reads as columns of the frame.
OtherKeys ==
    {"date_created", "date_paid", "status", "discount_total", "total_tax",
     "shipping", "coupon_lines", "payment_method_title"}

\* An order of the shop with every key: the values of the scenario, and
\* for the other keys those of a paid order without shipping or coupons.
FullOrder ==
    [id |-> 1,
     date_modified |-> 2,
     total |-> <<"4", "9", ".", "9", "9">>,
     shipping_total |-> <<"5", ".", "0", "0">>,
     customer_id |-> <<0>>,
     billing |-> [email |-> << <<"A", "@", "B", ".", "c", "o", "m">> >>],
     line_items |->
        [kind |-> "list",
         items |-> <<[product_id |-> 7, name |-> "Fish",
                      quantity |-> [kind |-> "num", v |-> 2],
                      price |-> [kind |-> "num", v |-> 10000]]>>],
     meta_data |->
        [kind |-> "list",
         items |-> <<[key |-> "_wc_order_attribution_device_type",
                      value |-> "Mobile"]>>],
     date_created |-> 1,
     date_paid |-> NaT,
     status |-> "completed",
     discount_total |-> <<"0", ".", "0", "0">>,
     total_tax |-> <<"0", ".", "0", "0">>,
     shipping |-> None,
     coupon_lines |-> <<>>,
     payment_method_title |-> "Card"]

\* The raw orders: the scenario's keys, and any of the others.
RawOrders ==
    {[k \in ScenarioKeys \cup extra |-> FullOrder[k]] : extra \in SUBSET OtherKeys}

\* The columns each step of main reads from the frame, in the order of the
\* steps.
ColumnsRead ==
    <<{"date_modified", "date_created", "date_paid"},
      {"id", "date_modified"},
      {"id", "total", "shipping_total", "discount_total", "total_tax"},
      {},
      {"shipping"},
      {"customer_id"},
      {"line_items"},
      {"date_created"},
      {"line_items", "coupon_lines"},
      {"meta_data"},
      {"date_created", "date_modified", "date_paid", "status", "customer_id",
       "payment_method_title"}>>

\* The fields of the record main returns for an order with every column.
ProcessedRecord(raw) ==
    [order_id |-> raw["id"],
     order_total |-> to_numeric(raw["total"]),
     shipping_total |-> to_numeric(raw["shipping_total"]),
     customer_identifier |->
        create_customer_identifier(
            [customer_id |-> raw["customer_id"], billing |-> raw["billing"]]),
     is_guest |-> IsGuest(raw["customer_id"]),
     total_items |-> count_total_items(raw["line_items"]),
     item_details |-> simplify_line_items(raw["line_items"]),
     device_type |-> simplify_metadata(raw["meta_data"]).device_type]

InitMain ==
    /\ PipelineAtRest
    /\ GeoAtRest
    /\ tpc = "transform_main"
    /\ orders_data = <<>>
    /\ deduplicated_data = <<>>
    /\ order_row = [customer_id |-> None, billing |-> [email |-> None]]
    /\ customer_identifier = None
    /\ is_guest = FALSE
    /\ StampAtRest
    /\ MetaAtRest
    /\ ItemsAtRest
    /\ CoordsAtRest
    /\ raw_order \in RawOrders
    /\ main_stage = 0
    /\ processed = None

mainFrame ==
    <<pipelineVars, geoVars, stampVars, metaVars, itemVars, coordVars,
      orders_data, deduplicated_data, order_row, customer_identifier,
      is_guest, raw_order>>

\* The next step of main finds its columns in the frame.
MainStep ==
    /\ tpc = "transform_main"
    /\ main_stage < Len(ColumnsRead)
    /\ ColumnsRead[main_stage + 1] \subseteq DOMAIN raw_order
    /\ main_stage' = main_stage + 1
    /\ UNCHANGED <<mainFrame, tpc, processed>>

\* The next step of main reads a column the frame does not have: KeyError.
MainRaisesKeyError ==
    /\ tpc = "transform_main"
    /\ main_stage < Len(ColumnsRead)
    /\ ~(ColumnsRead[main_stage + 1] \subseteq DOMAIN raw_order)
    /\ tpc' = "raised"
    /\ UNCHANGED <<mainFrame, main_stage, processed>>

\* return processed_data
MainReturns ==
    /\ tpc = "transform_main"
    /\ main_stage = Len(ColumnsRead)
    /\ processed' = <<ProcessedRecord(raw_order)>>
    /\ tpc' = "returned"
    /\ UNCHANGED <<mainFrame, main_stage>>

NextMain == MainStep \/ MainRaisesKeyError \/ MainReturns

SpecMain == InitMain /\ [][NextMain]_vars

\* ------------------------------------------------- the shop and the clock
\* The time from one scheduled run to the next, longer than the margin.
Period == MarginMinutes + 1

\* A period passes between two runs.
Tick ==
    /\ pc = "idle"
    /\ clock < MaxTicks * Period
    /\ clock' = clock + Period
    /\ UNCHANGED <<source, serverVars, durableVars, pc, runVars, fetchVars,
                   fetchObs, unfetched, runObs, loadObs>>
    /\ UNCHANGED unitVars

\* An order is created or modified in the shop: its date_modified is now.
\* The shop numbers its orders as they come: order o is created after o - 1.
ModifyOrder ==
    /\ pc = "idle"
    /\ \E o \in 1..ShopOrders :
          /\ IF o \in DOMAIN source THEN source[o] # clock
             ELSE o = 1 \/ o - 1 \in DOMAIN source
          /\ source' = [x \in DOMAIN source \cup {o} |->
                           IF x = o THEN clock ELSE source[x]]
          /\ unfetched' = unfetched \cup {o}
    /\ UNCHANGED <<clock, serverVars, durableVars, pc, runVars, fetchVars,
                   fetchObs, runObs, loadObs>>
    /\ UNCHANGED unitVars

\* ------------------------------------------------------ extract.main
\* A slip: a missing file reads as the start of the clock, not as "".
get_last_extraction_time_from_zero ==
    IF checkpoint_file = <<>> THEN 0 ELSE checkpoint_file[1]

\* get_last_extraction_time(): "" when the file is absent (FileNotFoundError
\* is caught), else the "last_extraction" of the document in it.
get_last_extraction_time ==
    IF checkpoint_file = <<>> THEN EmptyStr ELSE checkpoint_file[1]

\* A slip: the margin is left out.
extraction_time_without_margin == clock

\* (datetime.now() - timedelta(minutes=2)).isoformat()
extraction_time == clock - MarginMinutes

\* save_current_extraction_time(extraction_time): open(file, "w") and
\* json.dump both succeed, the file holds the new document.
save_current_extraction_time(t) ==
    /\ checkpoint_file' = <<t>>
    /\ checkpoint_torn' = FALSE

\* run_pipeline calls extract.main, which reads the checkpoint and enters
\* request_data("orders", last_extraction); the server pages the orders
\* modified after the checkpoint.
StartRun ==
    /\ pc = "idle"
    /\ runs < MaxRuns
    /\ ~checkpoint_torn
    /\ runs' = runs + 1
    /\ run_result' = "running"
    /\ checkpoint_at_start' = checkpoint_file
    /\ last_extraction' = get_last_extraction_time
    /\ endpoint' = "orders"
    /\ \E len \in 1..PageLen :
          srv_pages' = Paginate(Matching(source, get_last_extraction_time), len)
    /\ srv_endless' = FALSE
    /\ srv_flaky' = FALSE
    /\ page' = 1
    /\ all_data' = <<>>
    /\ params' = InitialParams("orders", get_last_extraction_time)
    /\ current_retry' = 0
    /\ get_calls' = <<>>
    /\ sleep_calls' = <<>>
    /\ retry_after' = 0
    /\ faults' = 0
    /\ fail_streak' = 0
    /\ pc' = "request"
    /\ UNCHANGED <<envVars, durableVars, all_raw_data, clean_data,
                   unfetched, loadObs>>
    /\ UNCHANGED unitVars

\* run_pipeline calls extract.main; the file is there and json.load raises
\* on it (JSONDecodeError is not caught by get_last_extraction_time), main
\* raises, run_pipeline prints and returns.
StartRunReadRaises ==
    /\ pc = "idle"
    /\ runs < MaxRuns
    /\ checkpoint_torn
    /\ runs' = runs + 1
    /\ run_result' = "extract_failed"
    /\ checkpoint_at_start' = checkpoint_file
    /\ UNCHANGED <<envVars, serverVars, durableVars, pc, runVars, fetchVars,
                   fetchObs, unfetched, loadObs>>
    /\ UNCHANGED unitVars

\* request_data's frame is gone once it has returned or raised.
DropFetchFrame ==
    /\ srv_pages' = <<>>
    /\ srv_endless' = FALSE
    /\ srv_flaky' = FALSE
    /\ page' = 1
    /\ all_data' = <<>>
    /\ params' = InitialParams("orders", EmptyStr)
    /\ current_retry' = 0
    /\ get_calls' = <<>>
    /\ sleep_calls' = <<>>
    /\ retry_after' = 0
    /\ faults' = 0
    /\ fail_streak' = 0
    /\ UNCHANGED endpoint

\* request_data returned: main collects the data, saves the checkpoint if
\* anything came in, and returns all_raw_data to run_pipeline.
ExtractReturn ==
    /\ pc = "rd_returned"
    /\ all_raw_data' = all_data
    /\ IF all_data # <<>>
       THEN save_current_extraction_time(extraction_time)
       ELSE UNCHANGED <<checkpoint_file, checkpoint_torn>>
    /\ unfetched' = unfetched \ {all_data[i].id : i \in DOMAIN all_data}
    /\ DropFetchFrame
    /\ pc' = "transform"
    /\ UNCHANGED <<envVars, table, last_extraction, clean_data, runObs, loadObs>>
    /\ UNCHANGED unitVars

\* The end of a run: run_pipeline's frame is gone.
EndRun(result) ==
    /\ pc' = "idle"
    /\ run_result' = result
    /\ last_extraction' = EmptyStr
    /\ all_raw_data' = <<>>
    /\ clean_data' = <<>>
    /\ UNCHANGED <<checkpoint_at_start, runs>>

\* request_data raised: main raises, run_pipeline prints and returns.
ExtractRaises ==
    /\ pc = "rd_raised"
    /\ DropFetchFrame
    /\ EndRun("extract_failed")
    /\ UNCHANGED <<envVars, durableVars, unfetched, loadObs>>
    /\ UNCHANGED unitVars

\* request_data returned records and the write of the checkpoint raises
\* OSError: os.makedirs or open raises and the file is as it was, or open
\* has truncated the file and json.dump's write raises.  Nothing catches
\* it in save_current_extraction_time or main; run_pipeline prints and
\* returns.
SaveRaises ==
    /\ pc = "rd_returned"
    /\ all_data # <<>>
    /\ \/ UNCHANGED <<checkpoint_file, checkpoint_torn>>
       \/ /\ checkpoint_file' = <<>>
          /\ checkpoint_torn' = TRUE
    /\ DropFetchFrame
    /\ EndRun("extract_failed")
    /\ UNCHANGED <<envVars, table, unfetched, loadObs>>
    /\ UNCHANGED unitVars

\* The process dies during save_current_extraction_time: before open the
\* file is as it was; between open(file, "w"), which truncates it, and the
\* end of the write it holds no complete document; after the write it
\* holds the new one.
SaveCrashes ==
    /\ pc = "rd_returned"
    /\ all_data # <<>>
    /\ \/ UNCHANGED <<checkpoint_file, checkpoint_torn>>
       \/ /\ checkpoint_file' = <<>>
          /\ checkpoint_torn' = TRUE
       \/ save_current_extraction_time(extraction_time)
    /\ DropFetchFrame
    /\ EndRun("crashed")
    /\ UNCHANGED <<envVars, table, unfetched, loadObs>>
    /\ UNCHANGED unitVars

\* ------------------------------------------------------ run_pipeline
\* clean_data = transform_main(raw_data)
TransformOk ==
    /\ pc = "transform"
    /\ clean_data' = TransformMain(all_raw_data)
    /\ pc' = "load"
    /\ UNCHANGED <<envVars, serverVars, durableVars, last_extraction,
                   all_raw_data, fetchVars, fetchObs, unfetched, runObs,
                   loadObs>>
    /\ UNCHANGED unitVars

\* A slip: the except branch lacks its return, the run goes on to load.
TransformRaisesWithoutReturn ==
    /\ pc = "transform"
    /\ all_raw_data # <<>>
    /\ pc' = "load"
    /\ run_result' = "transform_failed"
    /\ clean_data' = <<>>
    /\ UNCHANGED <<envVars, serverVars, durableVars, last_extraction,
                   all_raw_data, fetchVars, fetchObs, unfetched,
                   checkpoint_at_start, runs, loadObs>>
    /\ UNCHANGED unitVars

\* transform_main raises (it can only on a non-empty input); run_pipeline
\* prints and returns.
TransformRaises ==
    /\ pc = "transform"
    /\ all_raw_data # <<>>
    /\ EndRun("transform_failed")
    /\ UNCHANGED <<envVars, serverVars, durableVars, fetchVars, fetchObs,
                   unfetched, loadObs>>
    /\ UNCHANGED unitVars

\* load_main(clean_data) returns.
LoadOk ==
    /\ pc = "load"
    /\ Loaded(clean_data, LoadMain(table, clean_data, 0))
    /\ EndRun("finished")
    /\ UNCHANGED <<envVars, serverVars, checkpoint_file, checkpoint_torn, fetchVars, fetchObs,
                   unfetched>>
    /\ UNCHANGED unitVars

\* load_main raises: the database is unreachable or a batch fails (it
\* touches the database only for a non-empty frame).
LoadRaises ==
    /\ pc = "load"
    /\ clean_data # <<>>
    /\ \E k \in 1..Len(chunked(clean_data, rows_per_batch)) :
          Loaded(clean_data, LoadMain(table, clean_data, k))
    /\ EndRun("load_failed")
    /\ UNCHANGED <<envVars, serverVars, checkpoint_file, checkpoint_torn, fetchVars, fetchObs,
                   unfetched>>
    /\ UNCHANGED unitVars

Next ==
    \/ Tick
    \/ ModifyOrder
    \/ StartRun
    \/ StartRunReadRaises
    \/ RequestStep
    \/ ExtractReturn
    \/ ExtractRaises
    \/ SaveRaises
    \/ SaveCrashes
    \/ TransformOk
    \/ TransformRaises
    \/ LoadOk
    \/ LoadRaises

Spec == Init /\ [][Next]_vars

\* ============================================================ claims
\* The page numbers of the calls made, in order.
PagesRequested == [i \in 1..Len(get_calls) |-> get_calls[i]["page"]]

\* The calls made for page p.
CallsFor(p) == Cardinality({i \in 1..Len(get_calls) : get_calls[i]["page"] = p})

\* The last n entries of s.
LastN(s, n) == SubSeq(s, Len(s) - n + 1, Len(s))

\* request_data gave up: it returned from the branch "max retries reached".
RetriesExhausted == pc = "rd_returned" /\ current_retry = max_retries

\* The rows of tbl with order_id oid, counted with their multiplicity.
RowCount(tbl, oid) ==
    BagCardinality([r \in RowsOf(tbl, oid) |-> tbl[r]])

\* C1: a run whose transform stage or load stage fails leaves the persisted
\* checkpoint at the value it had when the run started.
C1_CheckpointOnlyAfterLoad ==
    (pc = "idle" /\ run_result \in {"transform_failed", "load_failed"})
        => checkpoint_file = checkpoint_at_start

\* C2: between runs, every order of the shop modified before the persisted
\* checkpoint has been fetched by some run.
C2_CheckpointCoversFetched ==
    (pc = "idle" /\ checkpoint_file # <<>>)
        => \A o \in DOMAIN source :
              source[o] < checkpoint_file[1] => o \notin unfetched

\* C3: the table holds exactly one row per order_id that a load has
\* committed, and no row of any other order.
C3_OneRowPerOrderId ==
    \A oid \in 1..NumOrders :
        RowCount(table, oid) = IF oid \in upserted_ever THEN 1 ELSE 0

\* C3 witness: a load has committed an order over a different stored
\* version of it, and the table holds several orders.
C3_Witness ==
    /\ overwrote
    /\ Cardinality(upserted_ever) >= 2

\* C4: a committed load of the records the committed load before it
\* carried leaves the table as that load left it.
C4_UpsertIdempotent == [][reloaded' => table' = table]_vars

\* C4 witness: the same records, more than one batch of them, were
\* loaded twice in a row.
C4_Witness ==
    /\ reloaded
    /\ Len(last_load.records) > rows_per_batch

\* C5: against a server with n non-empty pages that never fails,
\* request_data asks for pages 1, 2, ..., n + 1 in that order, once each,
\* and returns the concatenation of pages 1..n.
C5_PaginatesUntilEmpty ==
    (pc = "rd_returned" /\ faults = 0 /\ ~srv_endless)
        => /\ PagesRequested = [i \in 1..(Len(srv_pages) + 1) |-> i]
           /\ all_data = Flatten(srv_pages)

\* C5 witness: a full page, then a short one, then the empty one.
C5_Witness ==
    /\ pc = "rd_returned"
    /\ faults = 0
    /\ ~srv_endless
    /\ Len(srv_pages) = 2
    /\ Len(srv_pages[2]) < Len(srv_pages[1])
    /\ Len(get_calls) = 3

\* C6: while every request for the current page has failed, at most 5
\* retries were made; request_data never raises out of a failed request;
\* and when it gives up it has made exactly 6 calls for the page, the last
\* 6 calls, with the sleeps 2, 4, 8, 16, 32 between them and one sleep
\* fewer than failures in all (none before a first attempt).
C6_BackoffSchedule ==
    ~srv_endless =>
        /\ pc = "request" =>
              /\ CallsFor(params["page"]) = current_retry
              /\ current_retry <= 5
        /\ pc = "rd_raised" => current_retry = 0
        /\ RetriesExhausted =>
              /\ CallsFor(params["page"]) = 6
              /\ LastN(PagesRequested, 6) = [i \in 1..6 |-> params["page"]]
              /\ LastN(sleep_calls, 5) = <<2, 4, 8, 16, 32>>
              /\ Len(sleep_calls) = faults - 1

\* C6 witness: every request failed, from the first one on.
C6_Witness ==
    /\ RetriesExhausted
    /\ faults = 6
    /\ Len(get_calls) = 6
    /\ sleep_calls = <<2, 4, 8, 16, 32>>

\* C7: when the retries are exhausted on page k, request_data returns
\* exactly the records of pages 1..k-1.
C7_PartialResultsKept ==
    (RetriesExhausted /\ ~srv_endless)
        => all_data = Flatten(SubSeq(srv_pages, 1, params["page"] - 1))

\* C7 witness: the retries ran out on page 3, two pages were kept.
C7_Witness ==
    /\ RetriesExhausted
    /\ params["page"] = 3
    /\ Len(all_data) >= 2

\* C8: against a server that answers every request with a non-empty page,
\* request_data terminates.
C8_PageCountBounded == srv_endless => <>Terminated

\* C9: the sleep that follows a 429 response with Retry-After: h lasts h.
C9_HonoursRetryAfter ==
    [][(retry_after > 0 /\ Len(sleep_calls') = Len(sleep_calls) + 1)
          => Last(sleep_calls') = retry_after]_vars

\* C10: request_data never raises, a body that does not parse included.
C10_BadJsonDoesNotRaise == pc # "rd_raised"
\* C11: once extraction has returned, the checkpoint file holds the time
\* of the run minus 2 minutes if the run fetched a record, and what it held
\* when the run started if it fetched none.
C11_CheckpointIffRecords ==
    pc = "transform" =>
        IF all_raw_data # <<>>
        THEN checkpoint_file = <<clock - 2>> /\ ~checkpoint_torn
        ELSE checkpoint_file = checkpoint_at_start /\ ~checkpoint_torn

\* C11 witness: a run that fetched a record has moved a checkpoint an
\* earlier run had written.
C11_Witness ==
    /\ pc = "transform"
    /\ all_raw_data # <<>>
    /\ checkpoint_at_start # <<>>
    /\ checkpoint_file # checkpoint_at_start

\* C12: whatever becomes of the write of the checkpoint, short of the
\* death of the process, an extraction that fetched records returns them
\* and the run goes on to transform.
C12_SaveFailureDoesNotFailRun ==
    [][(pc = "rd_returned" /\ all_data # <<>> /\ run_result' # "crashed")
          => (pc' = "transform" /\ all_raw_data' = all_data)]_vars

\* C13: after a crash during the write the file holds the complete old
\* value or the complete new one.
C13_CrashAtomicWrite ==
    run_result = "crashed" =>
        /\ ~checkpoint_torn
        /\ checkpoint_file \in {checkpoint_at_start, <<clock - 2>>}

\* C14: a run that starts when the file is absent enters the fetch with
\* "" and without a modified_after parameter; one that starts when the
\* file holds a document enters it with the stored value.
C14_ReadAbsentGivesEmpty ==
    [][(runs' = runs + 1 /\ ~checkpoint_torn)
          => /\ pc' = "request"
             /\ last_extraction' = IF checkpoint_file = <<>> THEN EmptyStr
                                   ELSE checkpoint_file[1]
             /\ ("modified_after" \in DOMAIN params') = (checkpoint_file # <<>>)
             /\ checkpoint_file # <<>> =>
                   params'["modified_after"] = checkpoint_file[1]]_vars

\* C14 witness: the first run read an absent file, the second one the
\* value the first had stored.
C14_Witness ==
    /\ pc = "request"
    /\ runs = 2
    /\ checkpoint_at_start # <<>>
    /\ "modified_after" \in DOMAIN params

\* C15: the step in which a stage raises ends the run: run_pipeline is
\* back at rest, no later stage has a frame to work on, and the table is
\* as it was.
C15_StageFailureEndsRun ==
    [][(run_result' \in {"extract_failed", "transform_failed", "load_failed"}
        /\ (run_result = "running" \/ runs' # runs))
          => /\ pc' = "idle"
             /\ clean_data' = <<>>
             /\ all_raw_data' = <<>>
             /\ table' = table]_vars

\* C15 witness: a run whose transform stage raised is over.
C15_Witness ==
    /\ pc = "idle"
    /\ run_result = "transform_failed"
    /\ last_load = NoLoad
\* C17: after a committed load, the rows of the table with the order_id of
\* a loaded record are that record and nothing else, whatever the table
\* held for the order_id before.
C17_OverwritesEveryColumn ==
    last_load.ok =>
        \A i \in DOMAIN last_load.records :
            RowsOf(table, last_load.records[i]["order_id"]) = {last_load.records[i]}

\* C17 witness: a load of one record was committed over a different
\* stored version of its order.
C17_Witness ==
    /\ overwrote
    /\ last_load.ok
    /\ Len(last_load.records) = 1
\* C16: the deduplicated batch holds each id of the batch exactly once,
\* every record of it is a record of the batch, and no record of the batch
\* with the same id has a later date_modified.
C16_DedupKeepsLatest ==
    tpc = "deduplicated" =>
        /\ \A i \in DOMAIN orders_data :
              Cardinality({k \in DOMAIN deduplicated_data :
                              deduplicated_data[k].id = orders_data[i].id}) = 1
        /\ \A k \in DOMAIN deduplicated_data :
              /\ \E i \in DOMAIN orders_data : orders_data[i] = deduplicated_data[k]
              /\ \A i \in DOMAIN orders_data :
                    orders_data[i].id = deduplicated_data[k].id =>
                        orders_data[i].date_modified <= deduplicated_data[k].date_modified

\* C16 witness: of two versions of an order the later one came second in
\* the batch and was kept, with its total; another order came through.
C16_Witness ==
    /\ tpc = "deduplicated"
    /\ Len(orders_data) = 3
    /\ Len(deduplicated_data) = 2
    /\ \E i, j \in DOMAIN orders_data :
          /\ i < j
          /\ orders_data[i].id = orders_data[j].id
          /\ orders_data[i].date_modified < orders_data[j].date_modified
          /\ orders_data[i].date_modified # NaT
          /\ orders_data[i].total # orders_data[j].total
          /\ \E k \in DOMAIN deduplicated_data : deduplicated_data[k] = orders_data[j]
\* The number a string of decimal digits stands for.
RECURSIVE DecimalValue(_)
DecimalValue(str) ==
    IF str = <<>> THEN 0
    ELSE 10 * DecimalValue(SubSeq(str, 1, Len(str) - 1))
         + (CHOOSE d \in 0..9 : DigitChars[d + 1] = Last(str))

\* The row's customer_id is a number above 0.
PositiveCustomerId == order_row.customer_id # None /\ order_row.customer_id[1] > 0

\* The row has a billing email with a character that is not a space.
HasBillingEmail ==
    /\ order_row.billing.email # None
    /\ \E i \in DOMAIN order_row.billing.email[1] : order_row.billing.email[1][i] # " "

\* n spaces.
Spaces(n) == [i \in 1..n |-> " "]

\* The emails one step from e: another casing of it, or a space more at
\* one end.
NearEmails(e) ==
    {w \in Emails : Len(w) = Len(e) /\ Lower(w) = Lower(e)}
        \cup {<<" ">> \o e, e \o <<" ">>}

\* C19: with a customer_id above 0 the identifier is its decimal string;
\* else, with a billing email that is not blank, it is the digest of the
\* lowercased email without the spaces around it, and the same row with
\* the email in another casing or with one more space around it gets the
\* same identifier; else it is absent.
C19_CustomerIdentifier ==
    tpc \in {"identified", "marked"} =>
        /\ PositiveCustomerId =>
              /\ customer_identifier # None
              /\ \A i \in DOMAIN customer_identifier[1] :
                    \E d \in 1..10 : DigitChars[d] = customer_identifier[1][i]
              /\ DecimalValue(customer_identifier[1]) = order_row.customer_id[1]
        /\ (~PositiveCustomerId /\ HasBillingEmail) =>
              /\ \E i, j \in 0..MaxEmailLen, u \in Emails :
                    /\ order_row.billing.email[1] = Spaces(i) \o u \o Spaces(j)
                    /\ u # <<>> /\ Head(u) # " " /\ Last(u) # " "
                    /\ customer_identifier = <<Sha256Hex(Lower(u))>>
              /\ \A w \in NearEmails(order_row.billing.email[1]) :
                    create_customer_identifier(
                        [order_row EXCEPT !.billing.email = <<w>>])
                        = customer_identifier
        /\ (~PositiveCustomerId /\ ~HasBillingEmail) => customer_identifier = None

\* C19 witness: a guest row whose email has an upper-case letter and a
\* space before it got a digest.
C19_Witness ==
    /\ tpc = "identified"
    /\ order_row.customer_id = <<0>>
    /\ order_row.billing.email = << <<" ", "A">> >>
    /\ customer_identifier = <<Sha256Hex(<<"a">>)>>

\* C20: is_guest is true exactly when customer_id is missing or at most 0,
\* and false exactly when the identifier is the string of customer_id.
C20_IsGuest ==
    tpc = "marked" =>
        /\ is_guest = (order_row.customer_id = None \/ order_row.customer_id[1] <= 0)
        /\ (~is_guest) = (/\ PositiveCustomerId
                          /\ customer_identifier
                                = <<IntToStr(order_row.customer_id[1])>>)
\* The batches of the list that hold a postcode, in order.
BatchesToLookUp ==
    LET starts == {k \in 0..Len(postcodes.items) :
                      /\ k % geo_batch_size = 0
                      /\ k < Len(postcodes.items)
                      /\ BatchAt(postcodes.items, k) # <<>>}
        ordered == SortedIds(starts)
    IN [i \in 1..Len(ordered) |-> BatchAt(postcodes.items, ordered[i])]

\* C18: the step in which the lookup of a batch fails, by a network error
\* or a status that is not a success, maps every postcode of the batch to
\* (None, None), leaves every other postcode as it was resolved, and goes
\* on with the loop without raising; and a call that no unparseable body
\* cut short returns after a lookup for every batch that holds a postcode.
C18_BatchFailureIsPartial ==
    /\ [][(Len(batch_log') = Len(batch_log) + 1
           /\ Last(batch_log').outcome \in BatchFailures)
             => /\ gpc' = "loop"
                /\ start' = start + geo_batch_size
                /\ DOMAIN found_coordinates'
                      = DOMAIN found_coordinates \cup BatchSet(Last(batch_log').batch)
                /\ \A p \in BatchSet(Last(batch_log').batch) :
                      found_coordinates'[p] = Null
                /\ \A q \in DOMAIN found_coordinates \ BatchSet(Last(batch_log').batch) :
                      found_coordinates'[q] = found_coordinates[q]]_vars
    /\ []((gpc = "returned" /\ postcodes.kind = "list")
             => [i \in DOMAIN batch_log |-> batch_log[i].batch] = BatchesToLookUp)

\* C18 witness: the first batch resolved a postcode, the lookup of the
\* second failed; the call returned the coordinates of the first and
\* (None, None) for the second.
C18_Witness ==
    /\ gpc = "returned"
    /\ Len(batch_log) = 2
    /\ batch_log[1].outcome = "ok"
    /\ batch_log[2].outcome = "network_error"
    /\ "SW1A 1AA" \in BatchSet(batch_log[1].batch)
    /\ "M1 1AE" \in BatchSet(batch_log[2].batch) \ BatchSet(batch_log[1].batch)
    /\ found_coordinates["SW1A 1AA"] = << <<5150>>, <<-14>> >>
    /\ found_coordinates["M1 1AE"] = Null
\* C21: every request carries per_page = 100; the first asks for page 1
\* and each one for the page of the one before it or for the next page;
\* modified_after is sent exactly when a checkpoint was read, with its
\* value, and status = any exactly for the endpoint "orders".
C21_RequestParams ==
    ~srv_endless =>
        /\ \A i \in DOMAIN get_calls :
              /\ get_calls[i]["per_page"] = 100
              /\ IF i = 1 THEN get_calls[i]["page"] = 1
                 ELSE get_calls[i]["page"] - get_calls[i - 1]["page"] \in {0, 1}
              /\ ("modified_after" \in DOMAIN get_calls[i]) = (last_extraction # EmptyStr)
              /\ last_extraction # EmptyStr =>
                    get_calls[i]["modified_after"] = last_extraction
              /\ ("status" \in DOMAIN get_calls[i]) = (endpoint = "orders")
              /\ endpoint = "orders" => get_calls[i]["status"] = "any"
              /\ DOMAIN get_calls[i] \subseteq
                    {"per_page", "page", "modified_after", "status"}
        /\ pc = "request" => params["page"] = page

\* C21 witness: a call for "products" with a checkpoint went through three
\* pages.
C21_Witness ==
    /\ pc = "rd_returned"
    /\ endpoint = "products"
    /\ last_extraction = 0
    /\ faults = 0
    /\ Len(get_calls) = 3
    /\ get_calls[3]["page"] = 3

\* C28: a request that succeeds sets the retry counter to 0; the counter is
\* the number of failed requests since the last one that succeeded, at most
\* 5 while the loop runs and 6 when it has given up; a request that fails
\* leaves the page as it was; and the request that follows k failures in a
\* row comes after a sleep of 2 ** k seconds.
C28_RetryBudgetPerStreak ==
    /\ [](~srv_endless =>
            /\ fail_streak <= 6
            /\ pc = "request" => (fail_streak = current_retry /\ fail_streak <= 5)
            /\ fail_streak = 6 => pc = "rd_returned")
    /\ [][(Len(get_calls') = Len(get_calls) + 1 /\ ~srv_endless)
             => /\ fail_streak' = 0 => current_retry' = 0
                /\ fail_streak' > 0 =>
                      (page' = page /\ params'["page"] = params["page"])
                /\ fail_streak > 0 =>
                      /\ Len(sleep_calls') = Len(sleep_calls) + 1
                      /\ Last(sleep_calls') = 2 ^ fail_streak
                      /\ Last(get_calls')["page"] = Last(get_calls)["page"]
                /\ fail_streak = 0 => sleep_calls' = sleep_calls]_vars

\* C28 witness: one failure on page 1, then a success, then six failures
\* in a row on page 2.
C28_Witness ==
    /\ RetriesExhausted
    /\ params["page"] = 2
    /\ faults = 7
    /\ fail_streak = 6
    /\ sleep_calls = <<2, 2, 4, 8, 16, 32>>
\* C29: a load in which the execution of a batch fails, whichever batch
\* it is, leaves the table with the rows it had before the load.
C29_SingleTransaction ==
    [][(~last_load'.ok /\ last_load'.records # <<>>) => table' = table]_vars

\* C29 witness: a load of more than one batch failed and the table, which
\* held rows before, holds none of the load's records that it did not hold.
C29_Witness ==
    /\ ~last_load.ok
    /\ Len(last_load.records) > rows_per_batch
    /\ table # EmptyBag
    /\ \A i \in DOMAIN last_load.records : last_load.records[i] \notin BagToSet(table)
\* C22: the timestamp saved is the instant of the call minus 2 minutes
\* as UTC reads it, with the suffix Z, in every time zone.
C22_TimestampIsUtc ==
    extraction_stamp # None =>
        extraction_stamp[1] =
            [day |-> (utc_now - 2) \div 1440,
             hour |-> ((utc_now - 2) % 1440) \div 60,
             minute |-> (utc_now - 2) % 60,
             suffix |-> "Z"]
\* The places of the list where the key occurs with a non-empty value.
Occurrences(key) ==
    {i \in DOMAIN metadata_list.items :
        /\ metadata_list.items[i].key = key
        /\ metadata_list.items[i].value # ""}

FirstOf(S) == CHOOSE i \in S : \A j \in S : i <= j

LastOf(S) == CHOOSE i \in S : \A j \in S : j <= i

\* The fields of claim C27 with the keys they are mapped from.
OverwrittenFields ==
    {<<"attribution_source", "_wc_order_attribution_source_type">>,
     <<"campaign_source", "_wc_order_attribution_utm_source">>,
     <<"campaign_medium", "_wc_order_attribution_utm_medium">>}

\* C26: referrer_url is a value of the explicit referrer key whenever the
\* list holds one that is not empty, wherever the session referrer stands;
\* the session referrer is used only when there is no explicit one.
C26_ExplicitReferrerPreferred ==
    meta_fields # None =>
        LET explicit == Occurrences("_wc_order_attribution_referrer")
            session == Occurrences("_wc_order_attribution_session_referrer")
            url == meta_fields[1].referrer_url
        IN  /\ explicit # {} =>
                url \in {<<metadata_list.items[i].value>> : i \in explicit}
            /\ (explicit = {} /\ session # {}) =>
                url \in {<<metadata_list.items[i].value>> : i \in session}

\* C27 as stated: each of device_type, attribution_source, campaign_source
\* and campaign_medium is the value of the first non-empty occurrence of
\* its key in the list.
C27_FirstMatchWins ==
    meta_fields # None =>
        /\ LET occ == Occurrences("_wc_order_attribution_device_type")
           IN  occ # {} =>
                 meta_fields[1].device_type = metadata_list.items[FirstOf(occ)].value
        /\ \A f \in OverwrittenFields :
              LET occ == Occurrences(f[2])
              IN  occ # {} =>
                    meta_fields[1][f[1]] = <<metadata_list.items[FirstOf(occ)].value>>

\* C27 amended: each of device_type, attribution_source, campaign_source
\* and campaign_medium is the value of the last non-empty occurrence of
\* its key in the list, and the default when there is none.
C27_LastMatchWins ==
    meta_fields # None =>
        /\ LET occ == Occurrences("_wc_order_attribution_device_type")
           IN  meta_fields[1].device_type =
                 IF occ = {} THEN "Unknown"
                 ELSE metadata_list.items[LastOf(occ)].value
        /\ \A f \in OverwrittenFields :
              LET occ == Occurrences(f[2])
              IN  meta_fields[1][f[1]] =
                    IF occ = {} THEN None
                    ELSE <<metadata_list.items[LastOf(occ)].value>>

C27_Witness ==
    /\ meta_fields # None
    /\ Len(metadata_list.items) = 3
    /\ metadata_list.items[1] =
          [key |-> "_wc_order_attribution_device_type", value |-> "x"]
    /\ metadata_list.items[2] =
          [key |-> "_wc_order_attribution_device_type", value |-> ""]
    /\ metadata_list.items[3] =
          [key |-> "_wc_order_attribution_device_type", value |-> "y"]
    /\ meta_fields[1].device_type = "y"
\* The items of the order whose price and quantity are both numbers.
NumericItems ==
    SelectSeq(line_items.items,
              LAMBDA item : /\ item.quantity.kind \notin {"text", "null"}
                            /\ item.price.kind \notin {"text", "null"})

\* C25: an order with a line item whose price or quantity is no number is
\* still normalized: nothing raises, and item_details holds exactly the
\* other items.
C25_NonNumericItemSkipped ==
    /\ tpc # "raised"
    /\ tpc = "simplified" =>
          /\ Len(item_details) = Len(NumericItems)
          /\ \A i \in DOMAIN item_details :
                /\ item_details[i].product_id = NumericItems[i].product_id
                /\ item_details[i].quantity = NumericItems[i].quantity.v
\* C24: once the coordinates are merged, an order whose formatted postcode
\* the service resolves carries that postcode's rounded latitude and
\* longitude (no lookup having failed), and only the other orders have
\* null coordinates.
C24_CoordinatesMergedByPostcode ==
    (tpc = "merged" /\ \A i \in DOMAIN batch_log : batch_log[i].outcome = "ok") =>
        \A i \in DOMAIN coordinates :
            LET postcode == order_postcodes[i]
            IN  IF postcode # None /\ postcode[1] \in DOMAIN Gazetteer
                THEN coordinates[i] =
                        << <<Round2(Gazetteer[postcode[1]].latitude)>>,
                           <<Round2(Gazetteer[postcode[1]].longitude)>> >>
                ELSE coordinates[i] = Null
\* C23: the raw order of the end-to-end scenario, with its eight keys and
\* no others, is normalized without an error to a record with order_id 1,
\* order_total 49.99, is_guest true, customer_identifier sha256("a@b.com"),
\* total_items 2, the one item Fish of total price 20.0, and device_type
\* Mobile.
C23_ScenarioNormalizes ==
    DOMAIN raw_order = ScenarioKeys =>
        /\ tpc # "raised"
        /\ tpc = "returned" =>
              /\ processed # None
              /\ processed[1].order_id = 1
              /\ processed[1].order_total = <<4999>>
              /\ processed[1].is_guest = TRUE
              /\ processed[1].customer_identifier =
                    <<Sha256Hex(<<"a", "@", "b", ".", "c", "o", "m">>)>>
              /\ processed[1].total_items = 2
              /\ processed[1].item_details =
                    <<[product_id |-> 7, name |-> "Fish", quantity |-> 2,
                       total_price |-> 2000]>>
              /\ processed[1].device_type = "Mobile"
====
